---- MODULE Spec2Model ----
(***************************************************************************)
(* Model of Tasks/DigitalOceanSpacesUpload/utils/Spaces.ts: the two        *)
(* uploaders (Spaces.upload, Upload.init), their key normalisation and     *)
(* the content-type lookup of Upload.init.                                 *)
(*                                                                         *)
(* A string is a sequence of one-character strings, so that substring,     *)
(* startsWith, replace and the path functions are computed character by    *)
(* character.  <<>> is the empty string, which is also how an unset        *)
(* (falsy) parameter is written.                                           *)
(***************************************************************************)
EXTENDS Integers, Sequences, FiniteSets, TLC

VARIABLES host, variant, params, files, pc, idx, log, uploads, outcome,
          thrown, progress, keys

vars == <<host, variant, params, files, pc, idx, log, uploads, outcome,
          thrown, progress, keys>>

(* ------------------------------ bounds --------------------------------- *)

\* longest file list the discovery collaborator yields
MaxFiles == 3
\* httpUploadProgress callbacks delivered during one invocation
MaxProgress == 2
\* directory depth of the relative paths given to normalizeKeyPath
MaxDepth == 2

Hosts == {"posix", "win32"}
Variants == {"Spaces", "Upload"}
\* errors a ManagedUpload may reject with
Errors == {"AccessDenied", "NetworkingError"}

(* --------------------------- string helpers ---------------------------- *)

Last(s) == s[Len(s)]
Front(s) == SubSeq(s, 1, Len(s) - 1)

\* String.prototype.substring(n) / substr(n)
substring(s, n) == SubSeq(s, n + 1, Len(s))

\* String.prototype.startsWith
startsWith(s, p) == Len(p) <= Len(s) /\ SubSeq(s, 1, Len(p)) = p

\* targetPath.replace(/\\/g, '/')
replaceBackslash(s) == [i \in 1..Len(s) |-> IF s[i] = "\\" THEN "/" ELSE s[i]]

(* ------------------------- node's path module -------------------------- *)

\* path.sep
sep(h) == IF h = "win32" THEN "\\" ELSE "/"

\* isPosixPathSeparator / isPathSeparator
isPathSeparator(h, c) == c = "/" \/ (h = "win32" /\ c = "\\")

\* the segments of a path between separators (empty segments included)
RECURSIVE Split(_, _)
Split(h, s) ==
    IF s = <<>> THEN << <<>> >>
    ELSE LET r == Split(h, Tail(s)) IN
         IF isPathSeparator(h, Head(s)) THEN << <<>> >> \o r
         ELSE << <<Head(s)>> \o Head(r) >> \o Tail(r)

RECURSIVE JoinSegs(_, _)
JoinSegs(segs, s) ==
    IF segs = <<>> THEN <<>>
    ELSE IF Len(segs) = 1 THEN Head(segs)
    ELSE Head(segs) \o <<s>> \o JoinSegs(Tail(segs), s)

\* normalizeString: resolves '.', '..' and repeated separators
RECURSIVE normalizeString(_, _, _)
normalizeString(segs, out, allowAboveRoot) ==
    IF segs = <<>> THEN out
    ELSE LET g == Head(segs) IN
         IF g = <<>> \/ g = <<".">>
         THEN normalizeString(Tail(segs), out, allowAboveRoot)
         ELSE IF g = <<".", ".">>
         THEN IF out # <<>> /\ Last(out) # <<".", ".">>
              THEN normalizeString(Tail(segs), Front(out), allowAboveRoot)
              ELSE IF allowAboveRoot
              THEN normalizeString(Tail(segs), Append(out, g), allowAboveRoot)
              ELSE normalizeString(Tail(segs), out, allowAboveRoot)
         ELSE normalizeString(Tail(segs), Append(out, g), allowAboveRoot)

\* path.normalize, for paths without a drive or UNC prefix
normalize(h, p) ==
    IF p = <<>> THEN <<".">>
    ELSE LET isAbsolute == isPathSeparator(h, p[1])
             trailingSeparator == isPathSeparator(h, Last(p))
             body == JoinSegs(normalizeString(Split(h, p), <<>>, ~isAbsolute), sep(h))
             t1 == IF body = <<>> /\ ~isAbsolute THEN <<".">> ELSE body
             t2 == IF t1 # <<>> /\ trailingSeparator THEN t1 \o <<sep(h)>> ELSE t1
         IN IF isAbsolute THEN <<sep(h)>> \o t2 ELSE t2

\* path.join(a, b): the non-empty arguments joined by path.sep, normalised
join(h, a, b) ==
    LET parts == SelectSeq(<<a, b>>, LAMBDA x : x # <<>>)
    IN IF parts = <<>> THEN <<".">> ELSE normalize(h, JoinSegs(parts, sep(h)))

\* path.basename(p): the last non-empty segment, after a win32 drive prefix
basename(h, p) ==
    LET start == IF h = "win32" /\ Len(p) >= 2 /\ p[2] = ":" THEN 2 ELSE 0
        segs == SelectSeq(Split(h, substring(p, start)), LAMBDA x : x # <<>>)
    IN IF segs = <<>> THEN <<>> ELSE Last(segs)

\* index of the last '.' of s, 0 when there is none
RECURSIVE LastDot(_, _)
LastDot(s, i) == IF i = 0 THEN 0 ELSE IF s[i] = "." THEN i ELSE LastDot(s, i - 1)

\* path.extname(p): from the last '.' of the base name, '' when the base
\* name has no '.', starts with its only '.' run, or is '..'
extname(h, p) ==
    LET b == basename(h, p)
        d == LastDot(b, Len(b))
    IN IF d <= 1 \/ b = <<".", ".">> THEN <<>> ELSE SubSeq(b, d, Len(b))

(* ------------------------ Upload.knownMimeTypes ------------------------ *)

knownMimeTypes == {
    << <<".", "a", "i">>, "application/postscript" >>,
    << <<".", "a", "i", "f">>, "audio/x-aiff" >>,
    << <<".", "a", "i", "f", "c">>, "audio/x-aiff" >>,
    << <<".", "a", "i", "f", "f">>, "audio/x-aiff" >>,
    << <<".", "a", "s", "c">>, "text/plain" >>,
    << <<".", "a", "u">>, "audio/basic" >>,
    << <<".", "a", "v", "i">>, "video/x-msvideo" >>,
    << <<".", "b", "c", "p", "i", "o">>, "application/x-bcpio" >>,
    << <<".", "b", "i", "n">>, "application/octet-stream" >>,
    << <<".", "c">>, "text/plain" >>,
    << <<".", "c", "c">>, "text/plain" >>,
    << <<".", "c", "c", "a", "d">>, "application/clariscad" >>,
    << <<".", "c", "d", "f">>, "application/x-netcdf" >>,
    << <<".", "c", "l", "a", "s", "s">>, "application/octet-stream" >>,
    << <<".", "c", "p", "i", "o">>, "application/x-cpio" >>,
    << <<".", "c", "p", "p">>, "text/plain" >>,
    << <<".", "c", "p", "t">>, "application/mac-compactpro" >>,
    << <<".", "c", "s">>, "text/plain" >>,
    << <<".", "c", "s", "h">>, "application/x-csh" >>,
    << <<".", "c", "s", "s">>, "text/css" >>,
    << <<".", "d", "c", "r">>, "application/x-director" >>,
    << <<".", "d", "i", "r">>, "application/x-director" >>,
    << <<".", "d", "m", "s">>, "application/octet-stream" >>,
    << <<".", "d", "o", "c">>, "application/msword" >>,
    << <<".", "d", "o", "c", "x">>, "application/vnd.openxmlformats-officedocument.wordprocessingml.document" >>,
    << <<".", "d", "o", "t">>, "application/msword" >>,
    << <<".", "d", "r", "w">>, "application/drafting" >>,
    << <<".", "d", "v", "i">>, "application/x-dvi" >>,
    << <<".", "d", "w", "g">>, "application/acad" >>,
    << <<".", "d", "x", "f">>, "application/dxf" >>,
    << <<".", "d", "x", "r">>, "application/x-director" >>,
    << <<".", "e", "p", "s">>, "application/postscript" >>,
    << <<".", "e", "t", "x">>, "text/x-setext" >>,
    << <<".", "e", "x", "e">>, "application/octet-stream" >>,
    << <<".", "e", "z">>, "application/andrew-inset" >>,
    << <<".", "f">>, "text/plain" >>,
    << <<".", "f", "9", "0">>, "text/plain" >>,
    << <<".", "f", "l", "i">>, "video/x-fli" >>,
    << <<".", "g", "i", "f">>, "image/gif" >>,
    << <<".", "g", "t", "a", "r">>, "application/x-gtar" >>,
    << <<".", "g", "z">>, "application/x-gzip" >>,
    << <<".", "h">>, "text/plain" >>,
    << <<".", "h", "d", "f">>, "application/x-hdf" >>,
    << <<".", "h", "h">>, "text/plain" >>,
    << <<".", "h", "q", "x">>, "application/mac-binhex40" >>,
    << <<".", "h", "t", "m">>, "text/html" >>,
    << <<".", "h", "t", "m", "l">>, "text/html" >>,
    << <<".", "i", "c", "e">>, "x-conference/x-cooltalk" >>,
    << <<".", "i", "e", "f">>, "image/ief" >>,
    << <<".", "i", "g", "e", "s">>, "model/iges" >>,
    << <<".", "i", "g", "s">>, "model/iges" >>,
    << <<".", "i", "p", "s">>, "application/x-ipscript" >>,
    << <<".", "i", "p", "x">>, "application/x-ipix" >>,
    << <<".", "j", "p", "e">>, "image/jpeg" >>,
    << <<".", "j", "p", "e", "g">>, "image/jpeg" >>,
    << <<".", "j", "p", "g">>, "image/jpeg" >>,
    << <<".", "j", "s">>, "application/x-javascript" >>,
    << <<".", "k", "a", "r">>, "audio/midi" >>,
    << <<".", "l", "a", "t", "e", "x">>, "application/x-latex" >>,
    << <<".", "l", "h", "a">>, "application/octet-stream" >>,
    << <<".", "l", "s", "p">>, "application/x-lisp" >>,
    << <<".", "l", "z", "h">>, "application/octet-stream" >>,
    << <<".", "m">>, "text/plain" >>,
    << <<".", "m", "3", "u", "8">>, "application/x-mpegURL" >>,
    << <<".", "m", "a", "n">>, "application/x-troff-man" >>,
    << <<".", "m", "e">>, "application/x-troff-me" >>,
    << <<".", "m", "e", "s", "h">>, "model/mesh" >>,
    << <<".", "m", "i", "d">>, "audio/midi" >>,
    << <<".", "m", "i", "d", "i">>, "audio/midi" >>,
    << <<".", "m", "i", "m", "e">>, "www/mime" >>,
    << <<".", "m", "o", "v">>, "video/quicktime" >>,
    << <<".", "m", "o", "v", "i", "e">>, "video/x-sgi-movie" >>,
    << <<".", "m", "p", "2">>, "audio/mpeg" >>,
    << <<".", "m", "p", "3">>, "audio/mpeg" >>,
    << <<".", "m", "p", "e">>, "video/mpeg" >>,
    << <<".", "m", "p", "e", "g">>, "video/mpeg" >>,
    << <<".", "m", "p", "g">>, "video/mpeg" >>,
    << <<".", "m", "p", "g", "a">>, "audio/mpeg" >>,
    << <<".", "m", "s">>, "application/x-troff-ms" >>,
    << <<".", "m", "s", "i">>, "application/x-ole-storage" >>,
    << <<".", "m", "s", "h">>, "model/mesh" >>,
    << <<".", "n", "c">>, "application/x-netcdf" >>,
    << <<".", "o", "d", "a">>, "application/oda" >>,
    << <<".", "p", "b", "m">>, "image/x-portable-bitmap" >>,
    << <<".", "p", "d", "b">>, "chemical/x-pdb" >>,
    << <<".", "p", "d", "f">>, "application/pdf" >>,
    << <<".", "p", "g", "m">>, "image/x-portable-graymap" >>,
    << <<".", "p", "g", "n">>, "application/x-chess-pgn" >>,
    << <<".", "p", "n", "g">>, "image/png" >>,
    << <<".", "p", "n", "m">>, "image/x-portable-anymap" >>,
    << <<".", "p", "o", "t">>, "application/mspowerpoint" >>,
    << <<".", "p", "p", "m">>, "image/x-portable-pixmap" >>,
    << <<".", "p", "p", "s">>, "application/mspowerpoint" >>,
    << <<".", "p", "p", "t">>, "application/mspowerpoint" >>,
    << <<".", "p", "p", "t", "x">>, "application/vnd.openxmlformats-officedocument.presentationml.presentation" >>,
    << <<".", "p", "p", "z">>, "application/mspowerpoint" >>,
    << <<".", "p", "r", "e">>, "application/x-freelance" >>,
    << <<".", "p", "r", "t">>, "application/pro_eng" >>,
    << <<".", "p", "s">>, "application/postscript" >>,
    << <<".", "q", "t">>, "video/quicktime" >>,
    << <<".", "r", "a">>, "audio/x-realaudio" >>,
    << <<".", "r", "a", "m">>, "audio/x-pn-realaudio" >>,
    << <<".", "r", "a", "s">>, "image/cmu-raster" >>,
    << <<".", "r", "g", "b">>, "image/x-rgb" >>,
    << <<".", "r", "m">>, "audio/x-pn-realaudio" >>,
    << <<".", "r", "o", "f", "f">>, "application/x-troff" >>,
    << <<".", "r", "p", "m">>, "audio/x-pn-realaudio-plugin" >>,
    << <<".", "r", "t", "f">>, "text/rtf" >>,
    << <<".", "r", "t", "x">>, "text/richtext" >>,
    << <<".", "s", "c", "m">>, "application/x-lotusscreencam" >>,
    << <<".", "s", "e", "t">>, "application/set" >>,
    << <<".", "s", "g", "m">>, "text/sgml" >>,
    << <<".", "s", "g", "m", "l">>, "text/sgml" >>,
    << <<".", "s", "h">>, "application/x-sh" >>,
    << <<".", "s", "h", "a", "r">>, "application/x-shar" >>,
    << <<".", "s", "i", "l", "o">>, "model/mesh" >>,
    << <<".", "s", "i", "t">>, "application/x-stuffit" >>,
    << <<".", "s", "k", "d">>, "application/x-koan" >>,
    << <<".", "s", "k", "m">>, "application/x-koan" >>,
    << <<".", "s", "k", "p">>, "application/x-koan" >>,
    << <<".", "s", "k", "t">>, "application/x-koan" >>,
    << <<".", "s", "m", "i">>, "application/smil" >>,
    << <<".", "s", "m", "i", "l">>, "application/smil" >>,
    << <<".", "s", "n", "d">>, "audio/basic" >>,
    << <<".", "s", "o", "l">>, "application/solids" >>,
    << <<".", "s", "p", "l">>, "application/x-futuresplash" >>,
    << <<".", "s", "r", "c">>, "application/x-wais-source" >>,
    << <<".", "s", "t", "e", "p">>, "application/STEP" >>,
    << <<".", "s", "t", "l">>, "application/SLA" >>,
    << <<".", "s", "t", "p">>, "application/STEP" >>,
    << <<".", "s", "v", "4", "c", "p", "i", "o">>, "application/x-sv4cpio" >>,
    << <<".", "s", "v", "4", "c", "r", "c">>, "application/x-sv4crc" >>,
    << <<".", "s", "v", "g">>, "image/svg+xml" >>,
    << <<".", "s", "w", "f">>, "application/x-shockwave-flash" >>,
    << <<".", "t">>, "application/x-troff" >>,
    << <<".", "t", "a", "r">>, "application/x-tar" >>,
    << <<".", "t", "c", "l">>, "application/x-tcl" >>,
    << <<".", "t", "e", "x">>, "application/x-tex" >>,
    << <<".", "t", "i", "f">>, "image/tiff" >>,
    << <<".", "t", "i", "f", "f">>, "image/tiff" >>,
    << <<".", "t", "r">>, "application/x-troff" >>,
    << <<".", "t", "s">>, "video/MP2T" >>,
    << <<".", "t", "s", "i">>, "audio/TSP-audio" >>,
    << <<".", "t", "s", "p">>, "application/dsptype" >>,
    << <<".", "t", "s", "v">>, "text/tab-separated-values" >>,
    << <<".", "t", "x", "t">>, "text/plain" >>,
    << <<".", "u", "n", "v">>, "application/i-deas" >>,
    << <<".", "u", "s", "t", "a", "r">>, "application/x-ustar" >>,
    << <<".", "v", "c", "d">>, "application/x-cdlink" >>,
    << <<".", "v", "d", "a">>, "application/vda" >>,
    << <<".", "v", "r", "m", "l">>, "model/vrml" >>,
    << <<".", "w", "a", "v">>, "audio/x-wav" >>,
    << <<".", "w", "r", "l">>, "model/vrml" >>,
    << <<".", "x", "b", "m">>, "image/x-xbitmap" >>,
    << <<".", "x", "l", "c">>, "application/vnd.ms-excel" >>,
    << <<".", "x", "l", "l">>, "application/vnd.ms-excel" >>,
    << <<".", "x", "l", "m">>, "application/vnd.ms-excel" >>,
    << <<".", "x", "l", "s">>, "application/vnd.ms-excel" >>,
    << <<".", "x", "l", "s", "x">>, "application/vnd.openxmlformats-officedocument.spreadsheetml.sheet" >>,
    << <<".", "x", "l", "w">>, "application/vnd.ms-excel" >>,
    << <<".", "x", "m", "l">>, "text/xml" >>,
    << <<".", "x", "p", "m">>, "image/x-xpixmap" >>,
    << <<".", "x", "w", "d">>, "image/x-xwindowdump" >>,
    << <<".", "x", "y", "z">>, "chemical/x-pdb" >>,
    << <<".", "z", "i", "p">>, "application/zip" >>,
    << <<".", "m", "4", "v">>, "video/x-m4v" >>,
    << <<".", "w", "e", "b", "m">>, "video/webm" >>,
    << <<".", "o", "g", "v">>, "video/ogv" >>,
    << <<".", "x", "a", "p">>, "application/x-silverlight-app" >>,
    << <<".", "m", "p", "4">>, "video/mp4" >>,
    << <<".", "w", "m", "v">>, "video/x-ms-wmv" >>
}

\* Map.prototype.get: the value of the key equal to ext, "" (undefined, falsy) if none
mimeGet(ext) ==
    IF \E e \in knownMimeTypes : e[1] = ext
    THEN (CHOOSE e \in knownMimeTypes : e[1] = ext)[2]
    ELSE ""

(* ---------------------------- key normaliser --------------------------- *)

\* Spaces.normalizeKeyPath(file, params)
Spaces_normalizeKeyPath(h, file, p) ==
    LET relative0 == substring(file, Len(p.digitalSourceFolder))
        relativePath == IF startsWith(relative0, <<sep(h)>>)
                        THEN substring(relative0, 1) ELSE relative0
        flatFileName == basename(h, file)
        targetPath ==
            IF p.digitalFlattenFolders
            THEN IF p.digitalTargetFolder # <<>>
                 THEN join(h, p.digitalTargetFolder, flatFileName)
                 ELSE flatFileName
            ELSE IF p.digitalTargetFolder # <<>>
                 THEN join(h, p.digitalTargetFolder, relativePath)
                 ELSE relativePath
    IN replaceBackslash(targetPath)

\* Upload.normalizeKeyPath keeping the separator that follows the source folder
Upload_normalizeKeyPath_keepSeparator(h, file, p) ==
    LET relativePath == substring(file, Len(p.digitalSourceFolder))
        flatFileName == basename(h, file)
        targetPath ==
            IF p.digitalFlattenFolders
            THEN IF p.digitalTargetFolder # <<>>
                 THEN join(h, p.digitalTargetFolder, flatFileName)
                 ELSE flatFileName
            ELSE IF p.digitalTargetFolder # <<>>
                 THEN join(h, p.digitalTargetFolder, relativePath)
                 ELSE relativePath
    IN replaceBackslash(targetPath)

\* Upload.normalizeKeyPath(file)
Upload_normalizeKeyPath(h, file, p) ==
    LET relative0 == substring(file, Len(p.digitalSourceFolder))
        relativePath == IF startsWith(relative0, <<sep(h)>>)
                        THEN substring(relative0, 1) ELSE relative0
        flatFileName == basename(h, file)
        targetPath ==
            IF p.digitalFlattenFolders
            THEN IF p.digitalTargetFolder # <<>>
                 THEN join(h, p.digitalTargetFolder, flatFileName)
                 ELSE flatFileName
            ELSE IF p.digitalTargetFolder # <<>>
                 THEN join(h, p.digitalTargetFolder, relativePath)
                 ELSE relativePath
    IN replaceBackslash(targetPath)

normalizeKeyPath(v, h, file, p) ==
    IF v = "Spaces" THEN Spaces_normalizeKeyPath(h, file, p)
    ELSE Upload_normalizeKeyPath(h, file, p)

(* ------------------------- content-type lookup ------------------------- *)

\* Upload.init: the contentType of one file
contentType(h, file, p) ==
    IF p.digitalContentType # "" THEN p.digitalContentType
    ELSE LET c == mimeGet(extname(h, file))
         IN IF c = "" THEN "application/octet-stream" ELSE c

(* ------------------------------- inputs -------------------------------- *)

\* params.digitalSourceFolder on each host
SourceRoot(h) == IF h = "win32" THEN <<"C", ":", "\\", "s">> ELSE <<"/", "s">>

\* the source folder may be configured with a trailing separator
SourceFolders(h) == {SourceRoot(h), SourceRoot(h) \o <<sep(h)>>}

\* file and directory names: a posix name may hold a backslash, a win32
\* name holds neither separator
Names(h) ==
    IF h = "win32" THEN {<<"a">>, <<"b">>, <<"a", "b">>}
    ELSE {<<"a">>, <<"b">>, <<"a", "\\", "b">>}

RECURSIVE RelPathsOfDepth(_, _)
RelPathsOfDepth(h, d) ==
    IF d = 1 THEN Names(h)
    ELSE {n \o <<sep(h)>> \o r : n \in Names(h), r \in RelPathsOfDepth(h, d - 1)}

\* relative paths of the regular files below the source folder
RelPaths(h) == UNION {RelPathsOfDepth(h, d) : d \in 1..MaxDepth}

FileOf(h, rel) == SourceRoot(h) \o <<sep(h)>> \o rel

\* params.digitalTargetFolder: unset, plain, rooted, with a trailing
\* separator, with a '.' segment, nested with either separator
TargetFolders == {
    <<>>,
    <<"r">>,
    <<"/", "r">>,
    <<"r", "/">>,
    <<".", "/", "r">>,
    <<"r", "/", "t">>,
    <<"r", "\\", "t">> }

\* the files of the upload runs
RunRelPaths(h) == {
    <<"a", ".", "p", "d", "f">>,
    <<"d", sep(h), "A", ".", "P", "D", "F">>,
    <<"d", sep(h), "b", ".", "q">> }

RunFiles(h) == {FileOf(h, r) : r \in RunRelPaths(h)}

SeqsNoDup(S, n) ==
    UNION {{s \in [1..k -> S] : \A i, j \in 1..k : s[i] = s[j] => i = j} : k \in 0..n}

Params(src, tgt, flat, ct) ==
    [digitalSourceFolder |-> src, digitalTargetFolder |-> tgt,
     digitalFlattenFolders |-> flat, digitalContentType |-> ct]

(* ------------------------------- events -------------------------------- *)

\* one console.log / console.error call: the message id given to tl.loc and
\* the file, target path, content type and error passed with it (empty
\* when the call does not pass one)
Event(type, file, key, ct, err) ==
    [type |-> type, file |-> file, key |-> key, contentType |-> ct, err |-> err]

UploadingFiles == Event("UploadingFiles", <<>>, <<>>, "", "")

\* one s3Connection.upload(params) call and the state of its promise
Request(file, key, ct) ==
    [file |-> file, Key |-> key, ContentType |-> ct, state |-> "inflight", err |-> ""]

Settle(ups, st, err) ==
    [ups EXCEPT ![Len(ups)] = [@ EXCEPT !.state = st, !.err = err]]

(* ----------------------------- Spaces.upload --------------------------- *)

\* loop body of Spaces.upload up to the await: log, build and send the request
Spaces_iterationLog(h, file, p) ==
    <<Event("UploadingFile", file, Spaces_normalizeKeyPath(h, file, p), "", "")>>

Spaces_iterationRequest(h, file, p) ==
    <<Request(file, Spaces_normalizeKeyPath(h, file, p), "")>>

\* Spaces.upload() is called and runs to its first await, or returns
Spaces_upload ==
    /\ pc = "idle" /\ variant = "Spaces"
    /\ IF files = <<>>
       THEN /\ log' = log \o <<UploadingFiles>>
            /\ pc' = "done" /\ outcome' = "resolved"
            /\ UNCHANGED <<idx, uploads>>
       ELSE /\ log' = log \o <<UploadingFiles>> \o Spaces_iterationLog(host, files[1], params)
            /\ uploads' = uploads \o Spaces_iterationRequest(host, files[1], params)
            /\ idx' = 1 /\ pc' = "awaiting"
            /\ UNCHANGED outcome
    /\ UNCHANGED <<host, variant, params, files, thrown, progress, keys>>

\* request.promise() resolves: the rest of the iteration, then the next one
Spaces_resolved ==
    /\ pc = "awaiting" /\ variant = "Spaces"
    /\ LET done == Event("FileUploadCompleted", files[idx], uploads[Len(uploads)].Key, "", "")
       IN IF idx < Len(files)
          THEN /\ log' = log \o <<done>> \o Spaces_iterationLog(host, files[idx + 1], params)
               /\ uploads' = Settle(uploads, "resolved", "")
                               \o Spaces_iterationRequest(host, files[idx + 1], params)
               /\ idx' = idx + 1
               /\ UNCHANGED <<pc, outcome>>
          ELSE /\ log' = log \o <<done>>
               /\ uploads' = Settle(uploads, "resolved", "")
               /\ pc' = "done" /\ outcome' = "resolved"
               /\ UNCHANGED idx
    /\ UNCHANGED <<host, variant, params, files, thrown, progress, keys>>

\* Spaces.upload with a catch block that logs and does not rethrow
Spaces_rejected_swallowed(err) ==
    /\ pc = "awaiting" /\ variant = "Spaces"
    /\ IF idx < Len(files)
       THEN /\ log' = log \o <<Event("FileUploadFailed", <<>>, <<>>, "", err)>>
                          \o Spaces_iterationLog(host, files[idx + 1], params)
            /\ uploads' = Settle(uploads, "rejected", err)
                            \o Spaces_iterationRequest(host, files[idx + 1], params)
            /\ idx' = idx + 1
            /\ UNCHANGED <<pc, outcome>>
       ELSE /\ log' = log \o <<Event("FileUploadFailed", <<>>, <<>>, "", err)>>
            /\ uploads' = Settle(uploads, "rejected", err)
            /\ pc' = "done" /\ outcome' = "resolved"
            /\ UNCHANGED idx
    /\ UNCHANGED <<host, variant, params, files, thrown, progress, keys>>

\* request.promise() rejects: the catch block logs the error and rethrows it
Spaces_rejected(err) ==
    /\ pc = "awaiting" /\ variant = "Spaces"
    /\ log' = log \o <<Event("FileUploadFailed", <<>>, <<>>, "", err)>>
    /\ uploads' = Settle(uploads, "rejected", err)
    /\ pc' = "done" /\ outcome' = "rejected" /\ thrown' = err
    /\ UNCHANGED <<host, variant, params, files, idx, progress, keys>>

(* ------------------------------ Upload.init ---------------------------- *)

Upload_iterationLog(h, file, p) ==
    <<Event("UploadingFile", file, Upload_normalizeKeyPath(h, file, p),
            contentType(h, file, p), "")>>

Upload_iterationRequest(h, file, p) ==
    <<Request(file, Upload_normalizeKeyPath(h, file, p), contentType(h, file, p))>>

\* Upload.init sending every request before awaiting any of them
Upload_init_allAtOnce ==
    /\ pc = "idle" /\ variant = "Upload"
    /\ IF files = <<>>
       THEN /\ log' = log \o <<UploadingFiles, Event("FileNotFound", <<>>, <<>>, "", "")>>
            /\ pc' = "done" /\ outcome' = "resolved"
            /\ UNCHANGED <<idx, uploads>>
       ELSE /\ log' = log \o <<UploadingFiles>> \o Upload_iterationLog(host, files[1], params)
            /\ uploads' = [i \in 1..Len(files) |->
                              Upload_iterationRequest(host, files[i], params)[1]]
            /\ idx' = 1 /\ pc' = "awaiting"
            /\ UNCHANGED outcome
    /\ UNCHANGED <<host, variant, params, files, thrown, progress, keys>>

\* Upload.init() is called and runs to its first await, or returns
Upload_init ==
    /\ pc = "idle" /\ variant = "Upload"
    /\ IF files = <<>>
       THEN /\ log' = log \o <<UploadingFiles, Event("FileNotFound", <<>>, <<>>, "", "")>>
            /\ pc' = "done" /\ outcome' = "resolved"
            /\ UNCHANGED <<idx, uploads>>
       ELSE /\ log' = log \o <<UploadingFiles>> \o Upload_iterationLog(host, files[1], params)
            /\ uploads' = uploads \o Upload_iterationRequest(host, files[1], params)
            /\ idx' = 1 /\ pc' = "awaiting"
            /\ UNCHANGED outcome
    /\ UNCHANGED <<host, variant, params, files, thrown, progress, keys>>

Upload_resolved ==
    /\ pc = "awaiting" /\ variant = "Upload"
    /\ LET done == Event("FileUploadCompleted", files[idx], uploads[Len(uploads)].Key, "", "")
       IN IF idx < Len(files)
          THEN /\ log' = log \o <<done>> \o Upload_iterationLog(host, files[idx + 1], params)
               /\ uploads' = Settle(uploads, "resolved", "")
                               \o Upload_iterationRequest(host, files[idx + 1], params)
               /\ idx' = idx + 1
               /\ UNCHANGED <<pc, outcome>>
          ELSE /\ log' = log \o <<done, Event("TaskCompleted", <<>>, <<>>, "", "")>>
               /\ uploads' = Settle(uploads, "resolved", "")
               /\ pc' = "done" /\ outcome' = "resolved"
               /\ UNCHANGED idx
    /\ UNCHANGED <<host, variant, params, files, thrown, progress, keys>>

\* Upload.init with a catch block that logs the failure and goes on with the next file
Upload_rejected_continue(err) ==
    /\ pc = "awaiting" /\ variant = "Upload"
    /\ thrown' = err
    /\ IF idx < Len(files)
       THEN /\ log' = log \o <<Event("FileUploadFailed", <<>>, <<>>, "", err)>>
                          \o Upload_iterationLog(host, files[idx + 1], params)
            /\ uploads' = Settle(uploads, "rejected", err)
                            \o Upload_iterationRequest(host, files[idx + 1], params)
            /\ idx' = idx + 1
            /\ UNCHANGED <<pc, outcome>>
       ELSE /\ log' = log \o <<Event("FileUploadFailed", <<>>, <<>>, "", err)>>
            /\ uploads' = Settle(uploads, "rejected", err)
            /\ pc' = "done" /\ outcome' = "rejected"
            /\ UNCHANGED idx
    /\ UNCHANGED <<host, variant, params, files, progress, keys>>

\* Upload.init with a catch block that rethrows without logging
Upload_rejected_unlogged(err) ==
    /\ pc = "awaiting" /\ variant = "Upload"
    /\ uploads' = Settle(uploads, "rejected", err)
    /\ pc' = "done" /\ outcome' = "rejected" /\ thrown' = err
    /\ UNCHANGED <<host, variant, params, files, idx, log, progress, keys>>

\* request.promise() rejects: the catch block logs the error and rethrows it
Upload_rejected(err) ==
    /\ pc = "awaiting" /\ variant = "Upload"
    /\ log' = log \o <<Event("FileUploadFailed", <<>>, <<>>, "", err)>>
    /\ uploads' = Settle(uploads, "rejected", err)
    /\ pc' = "done" /\ outcome' = "rejected" /\ thrown' = err
    /\ UNCHANGED <<host, variant, params, files, idx, progress, keys>>

\* the in-flight request emits httpUploadProgress; the handler logs it
httpUploadProgress ==
    /\ pc = "awaiting" /\ progress < MaxProgress
    /\ log' = log \o <<Event("FileUploadProgress", <<>>, <<>>, "", "")>>
    /\ progress' = progress + 1
    /\ UNCHANGED <<host, variant, params, files, pc, idx, uploads, outcome, thrown, keys>>

(* ---------------------------- specifications --------------------------- *)

Init ==
    /\ host \in Hosts
    /\ variant \in Variants
    /\ \E tgt \in {<<>>, <<"r">>}, flat \in BOOLEAN, ct \in {"", "text/plain"} :
          params = Params(SourceRoot(host), tgt, flat, ct)
    /\ files \in SeqsNoDup(RunFiles(host), MaxFiles)
    /\ pc = "idle" /\ idx = 0 /\ log = <<>> /\ uploads = <<>>
    /\ outcome = "pending" /\ thrown = "" /\ progress = 0 /\ keys = <<>>

Next ==
    \/ Spaces_upload
    \/ Spaces_resolved
    \/ \E err \in Errors : Spaces_rejected(err)
    \/ Upload_init
    \/ Upload_resolved
    \/ \E err \in Errors : Upload_rejected(err)
    \/ httpUploadProgress

Spec == Init /\ [][Next]_vars

\* normalizeKeyPath applied to two files of one upload pass
NormalizeKeys ==
    /\ pc = "key"
    /\ keys' = [i \in 1..Len(files) |-> normalizeKeyPath(variant, host, files[i], params)]
    /\ pc' = "keyed"
    /\ UNCHANGED <<host, variant, params, files, idx, log, uploads, outcome, thrown, progress>>

InitKey ==
    /\ host \in Hosts
    /\ variant \in Variants
    /\ \E src \in SourceFolders(host), tgt \in TargetFolders, flat \in BOOLEAN :
          params = Params(src, tgt, flat, "")
    /\ \E r1, r2 \in RelPaths(host) : files = <<FileOf(host, r1), FileOf(host, r2)>>
    /\ pc = "key" /\ idx = 0 /\ log = <<>> /\ uploads = <<>>
    /\ outcome = "pending" /\ thrown = "" /\ progress = 0 /\ keys = <<>>

NextKey == NormalizeKeys

SpecKey == InitKey /\ [][NextKey]_vars

(* ------------------------------ properties ----------------------------- *)

Count(type) == Cardinality({i \in DOMAIN log : log[i].type = type})

InFlight == {i \in DOMAIN uploads : uploads[i].state = "inflight"}

Rejected == {i \in DOMAIN uploads : uploads[i].state = "rejected"}

PerFileEvents ==
    Count("UploadingFile") + Count("FileUploadProgress")
      + Count("FileUploadCompleted") + Count("FileUploadFailed")

\* C1: fail-fast.  Once the upload of a file has rejected, that request is
\* the last one ever issued and the operation has ended in failure; with
\* three files and the second upload rejected there is exactly one
\* completion event, exactly one failure event and no third request.
C1_FailFast ==
    /\ \A i \in Rejected :
          Len(uploads) = i /\ pc = "done" /\ outcome = "rejected"
    /\ (Len(files) = 3 /\ 2 \in Rejected) =>
          /\ Count("FileUploadCompleted") = 1
          /\ Count("FileUploadFailed") = 1
          /\ \A i \in DOMAIN uploads : uploads[i].file # files[3]

C1_Witness ==
    Len(files) = 3 /\ 2 \in Rejected /\ pc = "done"

\* C2: exit contract.  The operation resolves exactly when it has ended
\* with one resolved request per discovered file (none for an empty list);
\* a rejected request makes the operation reject with that request's error.
C2_ExitContract ==
    /\ outcome = "resolved" <=>
          /\ pc = "done"
          /\ Len(uploads) = Len(files)
          /\ \A i \in DOMAIN uploads : uploads[i].state = "resolved"
    /\ \A i \in Rejected : outcome = "rejected" /\ thrown = uploads[i].err
    /\ outcome = "rejected" => Rejected # {}

C2_Witness ==
    outcome = "rejected" /\ Len(uploads) = 2 /\ thrown = "NetworkingError"

\* C3: strictly sequential uploads.  At most one request is in flight, the
\* i-th request is for the i-th discovered file, and every request before
\* the latest one has resolved, also while progress events arrive.
C3_Sequential ==
    /\ Cardinality(InFlight) <= 1
    /\ Len(uploads) <= Len(files)
    /\ \A i \in DOMAIN uploads :
          /\ uploads[i].file = files[i]
          /\ i < Len(uploads) => uploads[i].state = "resolved"
    /\ \A i, j \in DOMAIN uploads : uploads[i].file = uploads[j].file => i = j

C3_Witness ==
    Len(uploads) = 3 /\ InFlight = {3} /\ progress > 0

\* C4: empty list.  With no discovered file, each entry point ends in
\* success having logged "no files found", issued no request and logged
\* no per-file event.
C4_EmptyList ==
    (pc = "done" /\ files = <<>>) =>
        /\ outcome = "resolved"
        /\ Count("FileNotFound") = 1
        /\ uploads = <<>>
        /\ PerFileEvents = 0

\* C5: a key never begins with a path separator and holds no backslash.
C5_NoLeadingSeparator ==
    pc = "keyed" =>
        \A i \in DOMAIN keys :
            /\ keys[i] # <<>> => keys[i][1] \notin {"/", "\\"}
            /\ \A k \in DOMAIN keys[i] : keys[i][k] # "\\"

\* C6: without flattening, two different files get two different keys.
C6_Injective ==
    (pc = "keyed" /\ ~params.digitalFlattenFolders /\ files[1] # files[2])
        => keys[1] # keys[2]

Upper == <<"A", "B", "C", "D", "E", "F", "G", "H", "I", "J", "K", "L", "M",
           "N", "O", "P", "Q", "R", "S", "T", "U", "V", "W", "X", "Y", "Z">>
Lower == <<"a", "b", "c", "d", "e", "f", "g", "h", "i", "j", "k", "l", "m",
           "n", "o", "p", "q", "r", "s", "t", "u", "v", "w", "x", "y", "z">>

ToLowerCase(s) ==
    [i \in 1..Len(s) |->
        IF \E k \in 1..26 : Upper[k] = s[i]
        THEN Lower[CHOOSE k \in 1..26 : Upper[k] = s[i]]
        ELSE s[i]]

\* the content type the resolver is specified to give
ExpectedContentType(h, file, override) ==
    IF override # "" THEN override
    ELSE LET ext == ToLowerCase(extname(h, file))
         IN IF \E e \in knownMimeTypes : e[1] = ext
            THEN (CHOOSE e \in knownMimeTypes : e[1] = ext)[2]
            ELSE "application/octet-stream"

\* C7: every request of Upload.init carries the override when one is set,
\* else the table entry of the lower-cased extension, else
\* application/octet-stream; never an empty content type.
C7_ContentType ==
    variant = "Upload" =>
        \A i \in DOMAIN uploads :
            /\ uploads[i].ContentType # ""
            /\ uploads[i].ContentType =
                   ExpectedContentType(host, uploads[i].file, params.digitalContentType)

slash(s) == [i \in 1..Len(s) |-> IF s[i] = "\\" THEN "/" ELSE s[i]]

RelativeOf(h, file) == CHOOSE r \in RelPaths(h) : FileOf(h, r) = file

BaseNameOf(h, file) ==
    LET r == RelativeOf(h, file)
    IN CHOOSE n \in Names(h) :
          \/ r = n
          \/ Len(r) > Len(n) /\ SubSeq(r, Len(r) - Len(n), Len(r)) = <<sep(h)>> \o n

KeyPrefix(t) ==
    IF t = <<>> THEN <<>>
    ELSE IF Last(t) \in {"/", "\\"} THEN slash(t)
    ELSE slash(t) \o <<"/">>

ExpectedKey(h, file, p) ==
    KeyPrefix(p.digitalTargetFolder)
      \o slash(IF p.digitalFlattenFolders THEN BaseNameOf(h, file) ELSE RelativeOf(h, file))

\* a target folder without '.', '..' or empty inner segments
PlainTarget(h, t) ==
    LET segs == Split(h, t)
    IN \A k \in DOMAIN segs :
          /\ segs[k] \notin {<<".">>, <<".", ".">>}
          /\ (1 < k /\ k < Len(segs)) => segs[k] # <<>>

\* C9 as stated: the key is the base name (flatten) or the relative path
\* (no flatten), after the target folder and one '/' when a target folder
\* is set, with '/' as the only separator.
C9_KeyConstruction ==
    pc = "keyed" =>
        \A i \in DOMAIN keys : keys[i] = ExpectedKey(host, files[i], params)

\* C9 as amended: the same, for a target folder that path.join leaves as it
\* is (no '.' or '..' segment, no repeated separator).
C9_KeyConstructionPlain ==
    (pc = "keyed" /\ PlainTarget(host, params.digitalTargetFolder)) =>
        \A i \in DOMAIN keys : keys[i] = ExpectedKey(host, files[i], params)

\* /s/a and /s/a/b under target r: r/a and r/b when flattened
C9_Witness ==
    /\ pc = "keyed" /\ host = "posix"
    /\ params = Params(<<"/", "s">>, <<"r">>, TRUE, "")
    /\ files = << <<"/", "s", "/", "a">>, <<"/", "s", "/", "a", "/", "b">> >>
    /\ keys = << <<"r", "/", "a">>, <<"r", "/", "b">> >>

\* C10: a run over a non-empty list whose uploads all resolve logs the
\* overall completion event once, right after the last file's completion
\* event; a run with a failure event never logs it, nor does any run
\* before an upload has settled.
C10_TaskCompleted ==
    /\ (outcome = "resolved" /\ files # <<>>) =>
          /\ Count("TaskCompleted") = 1
          /\ log[Len(log)].type = "TaskCompleted"
          /\ log[Len(log) - 1].type = "FileUploadCompleted"
          /\ log[Len(log) - 1].file = files[Len(files)]
    /\ Count("FileUploadFailed") > 0 => Count("TaskCompleted") = 0
    /\ Count("TaskCompleted") > 0 =>
          \E i \in DOMAIN uploads : uploads[i].state # "inflight"

====
